---------------------------- MODULE Spec2Model ----------------------------
(***************************************************************************)
(* EaMo-Converter: a Telegram bot that rewrites Amazon product links into   *)
(* affiliate links.  Two programs are modelled:                             *)
(*   - the polling bot   (src/unnamed/part_000)                             *)
(*   - the webhook app   (src/api/index.js)                                 *)
(* Texts are TLA+ strings; the regular expressions and the URL handling of  *)
(* the source are computed character by character on them.                  *)
(***************************************************************************)
EXTENDS Integers, Sequences, FiniteSets, TLC

(***************************************************************************)
(* Characters and strings.  A value that is used more than once is bound    *)
(* as the parameter of a local operator.                                    *)
(***************************************************************************)
LowerLetters ==
  {"a","b","c","d","e","f","g","h","i","j","k","l","m",
   "n","o","p","q","r","s","t","u","v","w","x","y","z"}

UpperLetters ==
  {"A","B","C","D","E","F","G","H","I","J","K","L","M",
   "N","O","P","Q","R","S","T","U","V","W","X","Y","Z"}

Digits == {"0","1","2","3","4","5","6","7","8","9"}

\* [a-zA-Z0-9]
Alnum == LowerLetters \cup UpperLetters \cup Digits

\* \s of the JavaScript regular expressions, and the characters trim() strips
Whitespace == {" ", "\t", "\n"}

\* s[i] as a one-character string
CharAt(s, i) == SubSeq(s, i, i)

\* s.slice(i-1): the suffix of s from position i (1-based)
From(s, i) == SubSeq(s, i, Len(s))

\* the literal lit occurs in s at position i
StartsAt(s, i, lit) ==
  /\ i >= 1
  /\ i + Len(lit) - 1 <= Len(s)
  /\ SubSeq(s, i, i + Len(lit) - 1) = lit

\* String.prototype.startsWith
startsWith(s, lit) == StartsAt(s, 1, lit)

\* the characters s[i..j] all belong to class
AllIn(s, i, j, class) == \A k \in i..j : CharAt(s, k) \in class

LowerChar(c) ==
  CASE c = "A" -> "a" [] c = "B" -> "b" [] c = "C" -> "c" [] c = "D" -> "d"
    [] c = "E" -> "e" [] c = "F" -> "f" [] c = "G" -> "g" [] c = "H" -> "h"
    [] c = "I" -> "i" [] c = "J" -> "j" [] c = "K" -> "k" [] c = "L" -> "l"
    [] c = "M" -> "m" [] c = "N" -> "n" [] c = "O" -> "o" [] c = "P" -> "p"
    [] c = "Q" -> "q" [] c = "R" -> "r" [] c = "S" -> "s" [] c = "T" -> "t"
    [] c = "U" -> "u" [] c = "V" -> "v" [] c = "W" -> "w" [] c = "X" -> "x"
    [] c = "Y" -> "y" [] c = "Z" -> "z" [] OTHER -> c

RECURSIVE Lower(_)
\* case folding of the /i flag and of the URL host
Lower(s) == IF Len(s) = 0 THEN "" ELSE LowerChar(CharAt(s, 1)) \o Lower(From(s, 2))

RECURSIVE TrimLeft(_)
TrimLeft(s) ==
  IF Len(s) > 0 /\ CharAt(s, 1) \in Whitespace THEN TrimLeft(From(s, 2)) ELSE s

RECURSIVE TrimRight(_)
TrimRight(s) ==
  IF Len(s) > 0 /\ CharAt(s, Len(s)) \in Whitespace
    THEN TrimRight(SubSeq(s, 1, Len(s) - 1))
    ELSE s

\* String.prototype.trim
trim(s) == TrimRight(TrimLeft(s))

\* the least element of a non-empty set of integers
Min(S) == CHOOSE x \in S : \A y \in S : x <= y

\* the greatest element of a non-empty set of integers
Max(S) == CHOOSE x \in S : \A y \in S : x >= y

\* s.indexOf(c) among positions >= i, or 0 when c does not occur
IndexFrom(s, i, chars) ==
  LET Least(hits) == IF hits = {} THEN 0 ELSE Min(hits)
  IN  Least({k \in i..Len(s) : CharAt(s, k) \in chars})

(***************************************************************************)
(* isValidAmazonTag: /^[a-zA-Z0-9]+(?:-[a-zA-Z0-9]+)*-[0-9]{1,3}$/          *)
(***************************************************************************)
\* [a-zA-Z0-9]+(?:-[a-zA-Z0-9]+)* : non-empty runs of alphanumerics joined by
\* single hyphens
RECURSIVE Segments(_)
Segments(s) ==
  LET SplitAt(h) ==
        IF h = 0
          THEN Len(s) >= 1 /\ AllIn(s, 1, Len(s), Alnum)
          ELSE /\ h >= 2
               /\ AllIn(s, 1, h - 1, Alnum)
               /\ Segments(From(s, h + 1))
  IN  SplitAt(IndexFrom(s, 1, {"-"}))

MaxSuffixDigits == 3

isValidAmazonTag(tag) ==
  \E n \in 1..MaxSuffixDigits :
    /\ Len(tag) >= n + 2
    /\ AllIn(tag, Len(tag) - n + 1, Len(tag), Digits)
    /\ CharAt(tag, Len(tag) - n) = "-"
    /\ Segments(SubSeq(tag, 1, Len(tag) - n - 1))

(***************************************************************************)
(* Absent values: null / undefined of the source (a missing msg.text, a     *)
(* missing userTags entry, a failed match, a failed resolution).  Null is   *)
(* falsy like them; it is no text a user can send and no URL.               *)
(***************************************************************************)
Null == "<null>"

(***************************************************************************)
(* URL extraction: text.match(/(https?:\/\/[^\s]+)/)                        *)
(***************************************************************************)
\* the positions where https?:\/\/[^\s]+ matches
UrlStarts(text) ==
  {i \in 1..Len(text) :
     \/ /\ StartsAt(text, i, "http://")
        /\ i + 7 <= Len(text)
        /\ CharAt(text, i + 7) \notin Whitespace
     \/ /\ StartsAt(text, i, "https://")
        /\ i + 8 <= Len(text)
        /\ CharAt(text, i + 8) \notin Whitespace}

\* urlMatch ? urlMatch[0] : null -- the leftmost match, extended greedily to
\* the next whitespace character
extractUrl(text) ==
  LET Upto(i, w) == SubSeq(text, i, IF w = 0 THEN Len(text) ELSE w - 1)
      MatchAt(i) == Upto(i, IndexFrom(text, i, Whitespace))
      Leftmost(starts) == IF starts = {} THEN Null ELSE MatchAt(Min(starts))
  IN  Leftmost(UrlStarts(text))

(***************************************************************************)
(* The regular expressions that classify a URL                             *)
(***************************************************************************)
\* (com|co\.uk|de|fr|es|it|ca|com\.au|co\.jp|cn|in)
AmazonTlds == {"com", "co.uk", "de", "fr", "es", "it", "ca", "com.au", "co.jp", "cn", "in"}

\* (amzn\.to|a\.co|amzn-to\.co|amazon\.in\/gp\/product)\/
ShortMarkers == {"amzn.to/", "a.co/", "amzn-to.co/", "amazon.in/gp/product/"}

\* [A-Z0-9]{10}
AsinLen == 10

\* amazonShortLinkRegex.test(url), shortLinkRegex.test(url); flag i
amazonShortLinkRegex(url) ==
  LET Test(l) == \E i \in 1..Len(l) : \E m \in ShortMarkers : StartsAt(l, i, m)
  IN  Test(Lower(url))

\* anyAmazonDomainRegex.test(url); flag i
anyAmazonDomainRegex(url) ==
  LET Test(l) == \E i \in 1..Len(l) : \E t \in AmazonTlds : StartsAt(l, i, "amazon." \o t)
  IN  Test(Lower(url))

\* (?:dp|gp\/product)\/([A-Z0-9]{10}) matches the case-folded l at j: the
\* position of the ASIN, or 0
AsinAt(l, j) ==
  LET Asin(a) == IF /\ a > 0
                    /\ a + AsinLen - 1 <= Len(l)
                    /\ AllIn(l, a, a + AsinLen - 1, LowerLetters \cup Digits)
                   THEN a ELSE 0
  IN  Asin(IF StartsAt(l, j, "dp/") THEN j + 3
           ELSE IF StartsAt(l, j, "gp/product/") THEN j + 11
           ELSE 0)

\* the matches of
\*   amazon\.(tld)\/.*(?:dp|gp\/product)\/([A-Z0-9]{10})     (flag i)
\* as <<start of "amazon", tld, start of the marker, start of the ASIN>>
LongMatches(url) ==
  LET After(h) == h[1] + Len("amazon." \o h[2] \o "/")
      Ends(l, h) == {j \in After(h)..Len(l) :
                       /\ AsinAt(l, j) > 0
                       /\ \A k \in After(h)..(j - 1) : CharAt(l, k) # "\n"}
      Heads(l) == {h \in {i \in 1..Len(l) : StartsAt(l, i, "amazon.")} \X AmazonTlds :
                     StartsAt(l, h[1], "amazon." \o h[2] \o "/")}
      Matches(l) == UNION { { <<h[1], h[2], j>> : j \in Ends(l, h) } : h \in Heads(l) }
  IN  Matches(Lower(url))

\* amazonLongLinkRegex.test(url)
amazonLongLinkRegex(url) == LongMatches(url) # {}

\* url.match(amazonLongRegex): the leftmost match, with the greedy .* reaching
\* the last marker, as [domain |-> match[1], asin |-> match[3]]
amazonLongMatch(url) ==
  LET Groups(m, a) == [domain |-> SubSeq(url, m[1], m[1] + Len(m[2]) + 6),
                       asin   |-> SubSeq(url, a, a + AsinLen - 1)]
      Of(m) == Groups(m, AsinAt(Lower(url), m[3]))
      First(ms) == CHOOSE m \in ms :
                     \A n \in ms : m[1] <= n[1] /\ (n[1] = m[1] => n[3] <= m[3])
  IN  Of(First(LongMatches(url)))

(***************************************************************************)
(* convertToAffiliateLink of the polling bot: rebuilds a minimal URL        *)
(***************************************************************************)
convertToAffiliateLinkPoll(url, tag) ==
  LET Rebuilt(match) ==
        "https://" \o match.domain \o "/dp/" \o match.asin \o "?tag=" \o tag
  IN  IF tag = Null THEN url
      ELSE IF amazonLongLinkRegex(url) THEN Rebuilt(amazonLongMatch(url))
      ELSE url

(***************************************************************************)
(* new URL(url), URLSearchParams and URL.toString() of the webhook app, for *)
(* http and https URLs.  Percent-coding covers the characters of PctCodes;  *)
(* the paths of the model's URLs hold no dot segments.                      *)
(***************************************************************************)
\* s.split(d) for a one-character delimiter d
RECURSIVE Split(_, _)
Split(s, d) ==
  LET Cut(k) == IF k = 0 THEN <<s>>
                ELSE <<SubSeq(s, 1, k - 1)>> \o Split(From(s, k + 1), d)
  IN  Cut(IndexFrom(s, 1, {d}))

\* the decimal value of a string of digits
RECURSIVE DecimalValue(_)
DecimalValue(s) ==
  IF Len(s) = 0 THEN 0
  ELSE 10 * DecimalValue(SubSeq(s, 1, Len(s) - 1))
       + (CHOOSE n \in 0..9 : ToString(n) = CharAt(s, Len(s)))

\* the port a scheme implies, which the serializer leaves out
DefaultPort(scheme) == IF scheme = "https" THEN 443 ELSE 80

\* code points a host may not contain
ForbiddenHostChars ==
  Whitespace \cup {"#", "/", ":", "<", ">", "?", "@", "[", "\\", "]", "^", "|", "%"}

\* the authority of a URL as [userinfo, host, port]: the userinfo ends at the
\* last "@", the port starts after the first ":" of what follows
urlAuthority(auth) ==
  LET HostPort(uinfo, hp, colon) ==
        [userinfo |-> uinfo,
         host     |-> IF colon = 0 THEN hp ELSE SubSeq(hp, 1, colon - 1),
         port     |-> IF colon = 0 THEN "" ELSE From(hp, colon + 1)]
      AfterAt(uinfo, hp) == HostPort(uinfo, hp, IndexFrom(hp, 1, {":"}))
      AtLast(ats) ==
        AfterAt(IF ats = {} THEN "" ELSE SubSeq(auth, 1, Max(ats) - 1),
                IF ats = {} THEN auth ELSE From(auth, Max(ats) + 1))
  IN  AtLast({k \in 1..Len(auth) : CharAt(auth, k) = "@"})

\* what follows the authority as [path, query, fragment]
urlTail(rest) ==
  LET Parts(noFrag, frag, qm) ==
        [path     |-> IF qm = 0 THEN noFrag ELSE SubSeq(noFrag, 1, qm - 1),
         query    |-> IF qm = 0 THEN "" ELSE From(noFrag, qm + 1),
         fragment |-> frag]
      Cut(noFrag, frag) == Parts(noFrag, frag, IndexFrom(noFrag, 1, {"?"}))
      AtHash(hash) == Cut(IF hash = 0 THEN rest ELSE SubSeq(rest, 1, hash - 1),
                          IF hash = 0 THEN "" ELSE From(rest, hash + 1))
  IN  AtHash(IndexFrom(rest, 1, {"#"}))

\* the value of a port string, -1 when it is not a port number (0..65535)
portValue(portS) ==
  LET InRange(n) == IF n < 65536 THEN n ELSE -1
  IN  IF Len(portS) = 0 THEN 0
      ELSE IF AllIn(portS, 1, Len(portS), Digits) /\ Len(portS) <= 5
        THEN InRange(DecimalValue(portS))
        ELSE -1

\* new URL(url): [ok, scheme, userinfo, host, port, path, query, fragment];
\* ok = FALSE where the constructor throws
parseUrl(url) ==
  LET Build(scheme, a, t, port) ==
        IF \/ Len(a.host) = 0
           \/ \E k \in 1..Len(a.host) : CharAt(a.host, k) \in ForbiddenHostChars
           \/ port < 0
          THEN [ok |-> FALSE]
          ELSE [ok       |-> TRUE,
                scheme   |-> scheme,
                userinfo |-> a.userinfo,
                host     |-> Lower(a.host),
                port     |-> IF Len(a.port) = 0 \/ port = DefaultPort(scheme)
                               THEN "" ELSE ToString(port),
                path     |-> IF Len(t.path) = 0 THEN "/" ELSE t.path,
                query    |-> t.query,
                fragment |-> t.fragment]
      WithAuthority(scheme, a, t) == Build(scheme, a, t, portValue(a.port))
      CutAt(scheme, a0, stop) ==
        WithAuthority(scheme,
                      urlAuthority(SubSeq(url, a0, IF stop = 0 THEN Len(url) ELSE stop - 1)),
                      urlTail(IF stop = 0 THEN "" ELSE From(url, stop)))
      After(scheme, a0) == CutAt(scheme, a0, IndexFrom(url, a0, {"/", "?", "#", "\\"}))
  IN  IF startsWith(url, "https://") THEN After("https", Len("https://") + 1)
      ELSE IF startsWith(url, "http://") THEN After("http", Len("http://") + 1)
      ELSE [ok |-> FALSE]

\* URL.prototype.toString
urlToString(u) ==
  u.scheme \o "://"
    \o (IF Len(u.userinfo) = 0 THEN "" ELSE u.userinfo \o "@")
    \o u.host
    \o (IF Len(u.port) = 0 THEN "" ELSE ":" \o u.port)
    \o u.path
    \o (IF Len(u.query) = 0 THEN "" ELSE "?" \o u.query)
    \o (IF Len(u.fragment) = 0 THEN "" ELSE "#" \o u.fragment)

\* percent codes of application/x-www-form-urlencoded
PctCodes ==
  { <<"/", "%2F">>, <<":", "%3A">>, <<"=", "%3D">>, <<"?", "%3F">>,
    <<"&", "%26">>, <<"@", "%40">>, <<"%", "%25">>, <<"#", "%23">>,
    <<",", "%2C">>, <<"+", "%2B">>, <<"~", "%7E">> }

\* the form-urlencoded parser's decoding of a name or a value
RECURSIVE FormDecode(_)
FormDecode(s) ==
  IF Len(s) = 0 THEN ""
  ELSE IF CharAt(s, 1) = "+" THEN " " \o FormDecode(From(s, 2))
  ELSE IF \E c \in PctCodes : StartsAt(s, 1, c[2]) \/ StartsAt(s, 1, Lower(c[2]))
    THEN (CHOOSE c \in PctCodes : StartsAt(s, 1, c[2]) \/ StartsAt(s, 1, Lower(c[2])))[1]
           \o FormDecode(From(s, 4))
  ELSE CharAt(s, 1) \o FormDecode(From(s, 2))

\* the form-urlencoded serializer's encoding of a name or a value
RECURSIVE FormEncode(_)
FormEncode(s) ==
  IF Len(s) = 0 THEN ""
  ELSE (IF CharAt(s, 1) = " " THEN "+"
        ELSE IF \E c \in PctCodes : c[1] = CharAt(s, 1)
          THEN (CHOOSE c \in PctCodes : c[1] = CharAt(s, 1))[2]
          ELSE CharAt(s, 1))
       \o FormEncode(From(s, 2))

\* the name=value pairs of the pieces of a query string, empty pieces skipped
RECURSIVE ParsePieces(_)
ParsePieces(pieces) ==
  IF pieces = <<>> THEN <<>>
  ELSE LET Pair(piece, eq) ==
             [name  |-> FormDecode(IF eq = 0 THEN piece ELSE SubSeq(piece, 1, eq - 1)),
              value |-> FormDecode(IF eq = 0 THEN "" ELSE From(piece, eq + 1))]
           Of(piece) == IF Len(piece) = 0 THEN <<>>
                        ELSE <<Pair(piece, IndexFrom(piece, 1, {"="}))>>
       IN  Of(Head(pieces)) \o ParsePieces(Tail(pieces))

\* new URLSearchParams(urlObj.search)
searchParams(query) == ParsePieces(Split(query, "&"))

\* params.delete(name)
paramsDelete(params, name) == SelectSeq(params, LAMBDA p : p.name # name)

\* params.set(name, value): the first pair of that name takes the value and
\* the others go; a new pair is appended when there is none
paramsSet(params, name, value) ==
  LET At(first) == SubSeq(params, 1, first - 1)
                     \o <<[name |-> name, value |-> value]>>
                     \o paramsDelete(SubSeq(params, first + 1, Len(params)), name)
  IN  IF \E k \in 1..Len(params) : params[k].name = name
        THEN At(Min({k \in 1..Len(params) : params[k].name = name}))
        ELSE Append(params, [name |-> name, value |-> value])

\* params.toString()
RECURSIVE paramsToString(_)
paramsToString(params) ==
  IF params = <<>> THEN ""
  ELSE FormEncode(Head(params).name) \o "=" \o FormEncode(Head(params).value)
       \o (IF Len(params) = 1 THEN "" ELSE "&" \o paramsToString(Tail(params)))

\* the parameters convertToAffiliateLink deletes, in its order
AffiliateParams == <<"tag", "linkCode", "ascsubtag", "creativeASIN", "ref_">>

RECURSIVE DeleteAll(_, _)
DeleteAll(params, names) ==
  IF names = <<>> THEN params
  ELSE DeleteAll(paramsDelete(params, Head(names)), Tail(names))

\* convertToAffiliateLinkHook with params.append("tag", tag) in the place of
\* the deletions and params.set("tag", tag)
convertToAffiliateLinkHookAppend(url, tag) ==
  LET Tagged(params) == Append(params, [name |-> "tag", value |-> tag])
      Rewritten(urlObj) ==
        IF ~urlObj.ok THEN url
        ELSE urlToString([urlObj EXCEPT
                            !.query = paramsToString(Tagged(searchParams(urlObj.query)))])
  IN  IF tag = Null THEN url ELSE Rewritten(parseUrl(url))

\* convertToAffiliateLinkHook with the scheme of the result forced to https
convertToAffiliateLinkHookHttps(url, tag) ==
  LET Tagged(params) == paramsSet(DeleteAll(params, AffiliateParams), "tag", tag)
      Rewritten(urlObj) ==
        IF ~urlObj.ok THEN url
        ELSE urlToString([urlObj EXCEPT
                            !.scheme = "https",
                            !.query = paramsToString(Tagged(searchParams(urlObj.query)))])
  IN  IF tag = Null THEN url ELSE Rewritten(parseUrl(url))

(***************************************************************************)
(* convertToAffiliateLink of the webhook app: query surgery on the URL      *)
(***************************************************************************)
convertToAffiliateLinkHook(url, tag) ==
  LET Tagged(params) == paramsSet(DeleteAll(params, AffiliateParams), "tag", tag)
      Rewritten(urlObj) ==
        IF ~urlObj.ok THEN url
        ELSE urlToString([urlObj EXCEPT
                            !.query = paramsToString(Tagged(searchParams(urlObj.query)))])
  IN  IF tag = Null THEN url ELSE Rewritten(parseUrl(url))

(***************************************************************************)
(* Bounds of the model                                                     *)
(***************************************************************************)
\* handlers that may wait for the resolver at the same time
MaxPending == 1

\* the users who write to the bot, each in a private chat (chat.id = from.id)
Users == {1, 2}

\* processes running the program: one in Spec, two sharing the tag file in SpecShared
Insts == {1, 2}

\* msg.text of the inbound messages; Null is a message without a text field
Texts ==
  { "/start", "/settag", "/help",
    "store-20", " shop-1 ",
    "https://amazon.com/dp/B00005N5PF",
    "look https://www.amazon.in/gp/product/B00005N5PF?ref_=x ok",
    "https://amazon.com/dp/B00005N5PF?tag=store-20",
    "https://amzn.to/abc",
    "https://example.com/x",
    "https://amazon.com/settag/dp/B00005N5PF",
    "https://www.amazon.com/gp/help",
    "amazon.com/dp/B00005N5PF",
    Null }

\* what the resolver can come back with: response.request.res.responseUrl of
\* the last hop, or null after an error
ResolverResults ==
  { Null,
    "https://www.amazon.com/dp/B00005N5PF?ref_=abc",
    "https://amazon.com/dp/B00005N5PF?tag=store-20",
    "https://www.amazon.com/gp/help",
    "https://example.com/x" }

\* the messages of SpecShared: the commands, the tags and a direct link, none
\* of which makes a handler wait for the resolver
SharedTexts ==
  { "/start", "/settag", "store-20", " shop-1 ", "https://amazon.com/dp/B00005N5PF" }

\* the tags a user of the model can have registered, and Null for none
TagValues ==
  {Null} \cup {trim(t) : t \in {t \in Texts \ {Null} : isValidAmazonTag(trim(t))}}

\* the URLs a handler can hold in originalUrl / originalReceivedUrl
TextUrls == {extractUrl(t) : t \in Texts \ {Null}} \ {Null}

(***************************************************************************)
(* State                                                                   *)
(***************************************************************************)
VARIABLES
  mode,              \* "poll": the polling bot, "hook": the webhook app
  up,                \* the running processes
  userTags,          \* userTags[i][u]: the tag map in the memory of process i
  usersAwaitingTag,  \* usersAwaitingTag[i]: the users process i marked as awaiting a tag
  file,              \* the content of USER_TAGS_FILE, Null for a user without entry
  writable,          \* USER_TAGS_FILE can be written (its directory is not read-only or full)
  waiting,           \* the handlers suspended at await, in start order
  last,              \* the handler run that ended or suspended last
  afterSetTag,       \* the users whose latest message was the text "/settag"
  botToken,          \* the bot credential is configured (config.js or TELEGRAM_BOT_TOKEN)
  boot,              \* boot[i]: what the start-up of process i did
  conv               \* a URL under convertToAffiliateLink, applied twice

vars == <<mode, up, userTags, usersAwaitingTag, file, writable, waiting, last, afterSetTag,
          botToken, boot, conv>>

\* a process that has not been started
NotStarted == [started |-> FALSE, logged |-> FALSE, client |-> FALSE]

\* no URL is under conversion
NoConv == [url |-> Null, tagA |-> Null, tagB |-> Null, first |-> Null, second |-> Null]

\* bot.sendMessage(chatId, ...): the message template, the handler that sent
\* it, and the value interpolated into it
Reply(kind, by, arg) == [kind |-> kind, by |-> by, arg |-> arg]

NoEvent ==
  [inst |-> 0, userId |-> 0, text |-> Null, step |-> "none", replies |-> <<>>,
   outcome |-> "none", http |-> 0, resolver |-> 0, saved |-> FALSE, pipeline |-> FALSE,
   result |-> Null]

\* regexp.exec(text) of an unanchored literal: text contains lit
Contains(text, lit) == \E i \in 1..Len(text) : StartsAt(text, i, lit)

\* the tickets of the suspended handlers; a handler that suspends takes the
\* least free one
Tickets == {waiting[k].id : k \in 1..Len(waiting)}

FreeTicket == Min((1..MaxPending) \ Tickets)

\* the sequence s without its k-th element
RemoveAt(s, k) == SubSeq(s, 1, k - 1) \o SubSeq(s, k + 1, Len(s))

\* saveUserTags(userTags): the whole map replaces the file's content, unless
\* the write fails (the error is logged and swallowed)
saveUserTags(tags) == IF writable THEN tags ELSE file

(***************************************************************************)
(* The polling bot.  A handler reads and writes only the entries of the     *)
(* sender: tag is userTags[userId] (Null when absent), awaiting is          *)
(* usersAwaitingTag[userId].                                                *)
(***************************************************************************)
\* convertReplyPoll with a fixed tag in the place of a missing
\* userTags[userId]
convertReplyPollDefaultTag(url, isAmazonLink, tag) ==
  IF isAmazonLink
    THEN LET Sent(affiliateLink) ==
               IF affiliateLink # url
                 THEN Reply("AffiliateLink", "message", affiliateLink)
                 ELSE Reply("CouldNotConvert", "message", "")
         IN  Sent(convertToAffiliateLinkPoll(url, IF tag = Null THEN "store-20" ELSE tag))
    ELSE Reply("NotAmazon", "message", "")

\* lines 229-248: the reply for a URL once it is known whether it is a long
\* Amazon link
convertReplyPoll(url, isAmazonLink, tag) ==
  IF isAmazonLink
    THEN LET Sent(affiliateLink) ==
               IF affiliateLink # url
                 THEN Reply("AffiliateLink", "message", affiliateLink)
                 ELSE Reply("CouldNotConvert", "message", "")
         IN  Sent(convertToAffiliateLinkPoll(url, tag))
    ELSE Reply("NotAmazon", "message", "")

\* onMessagePoll with the test of the tag format (line 158) left out
onMessagePollUnchecked(tag, awaiting, text) ==
  LET base == [tag |-> tag, awaiting |-> awaiting, saved |-> FALSE,
               replies |-> <<>>, outcome |-> "done", url |-> Null, pipeline |-> FALSE]
      pipe == [base EXCEPT !.pipeline = TRUE]
  IN
  IF awaiting THEN
    IF text = Null THEN [base EXCEPT !.outcome = "threw"]
    ELSE LET Capture(potentialTag) ==
               IF Len(potentialTag) > 0
                 THEN [base EXCEPT !.tag = potentialTag,
                                   !.saved = TRUE,
                                   !.awaiting = FALSE,
                                   !.replies = <<Reply("TagSet", "message", potentialTag)>>]
                 ELSE [base EXCEPT !.replies = <<Reply("InvalidTag", "message", "")>>]
         IN  Capture(trim(text))
  ELSE IF text = Null THEN [base EXCEPT !.outcome = "threw"]
  ELSE IF startsWith(text, "/")
    THEN [base EXCEPT !.replies = <<Reply("UnknownCommand", "message", "")>>]
  ELSE LET Pipeline(originalUrl) ==
             IF originalUrl = Null
               THEN [pipe EXCEPT !.replies = <<Reply("NoUrl", "message", "")>>]
             ELSE IF amazonShortLinkRegex(originalUrl)
               THEN [pipe EXCEPT !.replies = <<Reply("Detecting", "message", "")>>,
                                 !.outcome = "resolving",
                                 !.url = originalUrl]
             ELSE [pipe EXCEPT !.replies =
                     <<convertReplyPoll(originalUrl, amazonLongLinkRegex(originalUrl), tag)>>]
       IN  Pipeline(extractUrl(text))

\* bot.on("message") up to its first await or its end:
\*   tag, awaiting : userTags[userId] and usersAwaitingTag[userId] after it
\*   saved         : saveUserTags was called
\*   outcome       : "done", "threw" (TypeError on a missing text) or "resolving"
\*   pipeline      : it went on to the URL extraction (line 187)
onMessagePoll(tag, awaiting, text) ==
  LET base == [tag |-> tag, awaiting |-> awaiting, saved |-> FALSE,
               replies |-> <<>>, outcome |-> "done", url |-> Null, pipeline |-> FALSE]
      pipe == [base EXCEPT !.pipeline = TRUE]
  IN
  IF awaiting THEN
    IF text = Null THEN [base EXCEPT !.outcome = "threw"]
    ELSE LET Capture(potentialTag) ==
               IF Len(potentialTag) > 0 /\ isValidAmazonTag(potentialTag)
                 THEN [base EXCEPT !.tag = potentialTag,
                                   !.saved = TRUE,
                                   !.awaiting = FALSE,
                                   !.replies = <<Reply("TagSet", "message", potentialTag)>>]
                 ELSE [base EXCEPT !.replies = <<Reply("InvalidTag", "message", "")>>]
         IN  Capture(trim(text))
  ELSE IF text = Null THEN [base EXCEPT !.outcome = "threw"]
  ELSE IF startsWith(text, "/")
    THEN [base EXCEPT !.replies = <<Reply("UnknownCommand", "message", "")>>]
  ELSE LET Pipeline(originalUrl) ==
             IF originalUrl = Null
               THEN [pipe EXCEPT !.replies = <<Reply("NoUrl", "message", "")>>]
             ELSE IF amazonShortLinkRegex(originalUrl)
               THEN [pipe EXCEPT !.replies = <<Reply("Detecting", "message", "")>>,
                                 !.outcome = "resolving",
                                 !.url = originalUrl]
             ELSE [pipe EXCEPT !.replies =
                     <<convertReplyPoll(originalUrl, amazonLongLinkRegex(originalUrl), tag)>>]
       IN  Pipeline(extractUrl(text))

\* resolveShortAmazonLink(shortUrl), given what axios.get comes back with
resolveShortAmazonLink(shortUrl, result) ==
  IF ~amazonShortLinkRegex(shortUrl) THEN Null ELSE result

\* resumeMessagePoll with the reply of the failure branch (lines 216-221)
\* left out
resumeMessagePollSilentFailure(tag, originalUrl, result) ==
  LET Resumed(resolvedUrl) ==
        IF resolvedUrl # Null
          THEN <<convertReplyPoll(resolvedUrl, amazonLongLinkRegex(resolvedUrl), tag)>>
          ELSE <<>>
  IN  Resumed(resolveShortAmazonLink(originalUrl, result))

\* bot.on("message") from the return of its await to its end (lines 212-248):
\* the replies it sends
resumeMessagePoll(tag, originalUrl, result) ==
  LET Resumed(resolvedUrl) ==
        IF resolvedUrl # Null
          THEN <<convertReplyPoll(resolvedUrl, amazonLongLinkRegex(resolvedUrl), tag)>>
          ELSE <<Reply("ResolveFailed", "message", "")>>
  IN  Resumed(resolveShortAmazonLink(originalUrl, result))

\* bot.onText(/\/start/): clears the pending flag, replies with the tag status
onStartPoll(tag) ==
  [awaiting |-> FALSE,
   replies  |-> IF tag # Null
                  THEN <<Reply("WelcomeBack", "start", tag)>>
                  ELSE <<Reply("Welcome", "start", "")>>]

\* bot.onText(/\/settag/): sets the pending flag, asks for the tag
onSetTagPoll ==
  [awaiting |-> TRUE,
   replies  |-> <<Reply("SetTagPrompt", "settag", "")>>]

\* One update of the polling loop.  The library emits "message" first (the
\* async handler runs to its first await), and then, for a message with a
\* text, calls every onText callback whose pattern matches, in registration
\* order: /\/start/, then /\/settag/.
processUpdatePoll(tag, awaiting, text) ==
  LET Update(m, st, se) ==
        [m EXCEPT !.awaiting = se.awaiting,
                  !.replies = m.replies \o st.replies \o se.replies]
      SetTag(m, st) ==
        Update(m, st, IF text # Null /\ Contains(text, "/settag")
                        THEN onSetTagPoll
                        ELSE [awaiting |-> st.awaiting, replies |-> <<>>])
      OnText(m) ==
        SetTag(m, IF text # Null /\ Contains(text, "/start")
                    THEN onStartPoll(m.tag)
                    ELSE [awaiting |-> m.awaiting, replies |-> <<>>])
  IN  OnText(onMessagePoll(tag, awaiting, text))

\* processUpdatePoll and resumeMessagePoll, tabulated for the inputs of the
\* model (f @@ <<>> is f, evaluated once for its whole domain)
PollUpdates ==
  [in \in TagValues \X BOOLEAN \X Texts |-> processUpdatePoll(in[1], in[2], in[3])] @@ <<>>

PollResumes ==
  [in \in TagValues \X TextUrls \X ResolverResults |->
     resumeMessagePoll(in[1], in[2], in[3])] @@ <<>>

\* an update reaches the process only through the polling of its client,
\* which the Bot API answers only for a valid credential
PollMessage(i, userId, text) ==
  /\ mode = "poll"
  /\ i \in up
  /\ botToken
  /\ LET m == PollUpdates[<<userTags[i][userId], userId \in usersAwaitingTag[i], text>>]
         tags == [userTags[i] EXCEPT ![userId] = m.tag]
     IN  /\ m.outcome = "resolving" => Len(waiting) < MaxPending
         /\ file' = IF m.saved THEN saveUserTags(tags) ELSE file
         /\ last' = [inst |-> i, userId |-> userId, text |-> text, step |-> "message",
                     replies |-> m.replies, outcome |-> m.outcome, http |-> 0,
                     resolver |-> IF m.outcome = "resolving" THEN 1 ELSE 0,
                     saved |-> m.saved, pipeline |-> m.pipeline, result |-> Null]
         /\ userTags' = [userTags EXCEPT ![i] = tags]
         /\ usersAwaitingTag' =
              [usersAwaitingTag EXCEPT ![i] = IF m.awaiting THEN @ \cup {userId}
                                              ELSE @ \ {userId}]
         /\ waiting' = IF m.outcome = "resolving"
                         THEN Append(waiting, [id |-> FreeTicket, inst |-> i,
                                               userId |-> userId, text |-> text,
                                               url |-> m.url])
                         ELSE waiting
         /\ afterSetTag' = IF text = "/settag" THEN afterSetTag \cup {userId}
                           ELSE afterSetTag \ {userId}
  /\ UNCHANGED <<mode, up, writable, botToken, boot, conv>>

\* The resolver call of the k-th suspended handler returns and the handler
\* runs to its end.
PollResolved(k, result) ==
  /\ mode = "poll"
  /\ k \in 1..Len(waiting)
  /\ LET w == waiting[k]
     IN  /\ last' = [inst |-> w.inst, userId |-> w.userId, text |-> w.text,
                     step |-> "resumed",
                     replies |-> PollResumes[<<userTags[w.inst][w.userId], w.url, result>>],
                     outcome |-> "done", http |-> 0, resolver |-> 1, saved |-> FALSE,
                     pipeline |-> TRUE, result |-> result]
         /\ waiting' = RemoveAt(waiting, k)
  /\ UNCHANGED <<mode, up, userTags, usersAwaitingTag, file, writable, afterSetTag,
                 botToken, boot, conv>>

(***************************************************************************)
(* The webhook app                                                         *)
(***************************************************************************)
\* lines 232-255: the reply for finalAmazonUrl, Null when the URL is on no
\* Amazon domain
convertReplyHook(finalAmazonUrl, tag) ==
  IF finalAmazonUrl # Null
    THEN LET Sent(affiliateLink) ==
               IF affiliateLink # finalAmazonUrl
                 THEN Reply("AffiliateLink", "post", affiliateLink)
                 ELSE Reply("CouldNotConvert", "post", "")
         IN  Sent(convertToAffiliateLinkHook(finalAmazonUrl, tag))
    ELSE Reply("NotAmazon", "post", "")

\* app.post("/") for a body with a message, up to its await or its end:
\*   tag      : userTags[userId] after it
\*   awaiting : what it does to usersAwaitingTag[userId]: "set", "clear", "keep"
\*   saved    : saveUserTags was called
\*   outcome  : "done", "threw" (TypeError on a missing text) or "resolving"
\*   http     : the responses sent, all of status 200
\*   pipeline : it went on to the URL extraction (line 192)
onPostHook(tag, text) ==
  LET base == [tag |-> tag, awaiting |-> "keep", saved |-> FALSE, replies |-> <<>>,
               outcome |-> "done", url |-> Null, http |-> 1, pipeline |-> FALSE]
      threw == [base EXCEPT !.outcome = "threw", !.http = 0]
      pipe == [base EXCEPT !.pipeline = TRUE]
  IN
  IF text = "/settag"
    THEN [base EXCEPT !.awaiting = "set",
                      !.replies = <<Reply("SetTagPrompt", "post", "")>>]
  ELSE IF tag = Null /\ text = Null THEN threw
  ELSE IF tag = Null /\ ~startsWith(text, "/") THEN
    LET Capture(potentialTag) ==
          IF Len(potentialTag) > 0 /\ isValidAmazonTag(potentialTag)
            THEN [base EXCEPT !.tag = potentialTag,
                              !.saved = TRUE,
                              !.replies = <<Reply("TagSet", "post", potentialTag)>>]
            ELSE [base EXCEPT !.replies = <<Reply("ProvideTag", "post", "")>>]
    IN  Capture(trim(text))
  ELSE IF text = Null THEN threw
  ELSE IF startsWith(text, "/") THEN
    IF text = "/start"
      THEN [base EXCEPT !.awaiting = "clear",
                        !.replies = IF tag # Null
                                      THEN <<Reply("WelcomeBack", "post", tag)>>
                                      ELSE <<Reply("Welcome", "post", "")>>]
      ELSE [base EXCEPT !.replies = <<Reply("UnknownCommand", "post", "")>>]
  ELSE LET Pipeline(originalReceivedUrl) ==
             IF originalReceivedUrl = Null
               THEN [pipe EXCEPT !.replies = <<Reply("NoUrl", "post", "")>>]
             ELSE IF anyAmazonDomainRegex(originalReceivedUrl)
               THEN [pipe EXCEPT !.replies = <<convertReplyHook(originalReceivedUrl, tag)>>]
             ELSE [pipe EXCEPT !.replies = <<Reply("Detecting", "post", "")>>,
                               !.outcome = "resolving",
                               !.url = originalReceivedUrl,
                               !.http = 0]
       IN  Pipeline(extractUrl(text))

\* resumePostHook without the test of the resolved URL (line 220)
resumePostHookAnyDomain(tag, result) ==
  IF result # Null
    THEN <<convertReplyHook(result, tag)>>
    ELSE <<Reply("ResolveFailed", "post", "")>>

\* app.post("/") from the return of await resolveUrl(...) to its end (lines
\* 216-258): the replies it sends; result is what resolveUrl returns
resumePostHook(tag, result) ==
  IF result # Null
    THEN <<convertReplyHook(IF anyAmazonDomainRegex(result) THEN result ELSE Null, tag)>>
    ELSE <<Reply("ResolveFailed", "post", "")>>

\* onPostHook and resumePostHook, tabulated for the inputs of the model
HookPosts == [in \in TagValues \X Texts |-> onPostHook(in[1], in[2])] @@ <<>>

HookResumes ==
  [in \in TagValues \X ResolverResults |-> resumePostHook(in[1], in[2])] @@ <<>>

\* a POST whose body holds no message: answered at once
HookNoMessage(i) ==
  /\ mode = "hook"
  /\ i \in up
  /\ last' = [NoEvent EXCEPT !.inst = i, !.step = "nomessage", !.outcome = "done", !.http = 1]
  /\ UNCHANGED <<mode, up, userTags, usersAwaitingTag, file, writable, waiting, afterSetTag,
                 botToken, boot, conv>>

\* a POST whose body holds a message
HookPost(i, userId, text) ==
  /\ mode = "hook"
  /\ i \in up
  /\ LET m == HookPosts[<<userTags[i][userId], text>>]
         tags == [userTags[i] EXCEPT ![userId] = m.tag]
     IN  /\ m.outcome = "resolving" => Len(waiting) < MaxPending
         /\ file' = IF m.saved THEN saveUserTags(tags) ELSE file
         /\ last' = [inst |-> i, userId |-> userId, text |-> text, step |-> "message",
                     replies |-> m.replies, outcome |-> m.outcome, http |-> m.http,
                     resolver |-> IF m.outcome = "resolving" THEN 1 ELSE 0,
                     saved |-> m.saved, pipeline |-> m.pipeline, result |-> Null]
         /\ userTags' = [userTags EXCEPT ![i] = tags]
         /\ usersAwaitingTag' =
              [usersAwaitingTag EXCEPT ![i] = IF m.awaiting = "set" THEN @ \cup {userId}
                                              ELSE IF m.awaiting = "clear" THEN @ \ {userId}
                                              ELSE @]
         /\ waiting' = IF m.outcome = "resolving"
                         THEN Append(waiting, [id |-> FreeTicket, inst |-> i,
                                               userId |-> userId, text |-> text,
                                               url |-> m.url])
                         ELSE waiting
         /\ afterSetTag' = IF text = "/settag" THEN afterSetTag \cup {userId}
                           ELSE afterSetTag \ {userId}
  /\ UNCHANGED <<mode, up, writable, botToken, boot, conv>>

\* resolveUrl of the k-th suspended request returns; the handler runs to its
\* end and answers the request
HookResolved(k, result) ==
  /\ mode = "hook"
  /\ k \in 1..Len(waiting)
  /\ LET w == waiting[k]
     IN  /\ last' = [inst |-> w.inst, userId |-> w.userId, text |-> w.text,
                     step |-> "resumed",
                     replies |-> HookResumes[<<userTags[w.inst][w.userId], result>>],
                     outcome |-> "done", http |-> 1, resolver |-> 1, saved |-> FALSE,
                     pipeline |-> TRUE, result |-> result]
         /\ waiting' = RemoveAt(waiting, k)
  /\ UNCHANGED <<mode, up, userTags, usersAwaitingTag, file, writable, afterSetTag,
                 botToken, boot, conv>>

\* a process of the webhook app starts (lines 9-61): without the credential
\* it logs the fault and the module load throws; otherwise it creates the
\* client, and let userTags = loadUserTags(), usersAwaitingTag = {}
Start(i) ==
  /\ mode = "hook"
  /\ ~boot[i].started
  /\ boot' = [boot EXCEPT ![i] = [started |-> TRUE, logged |-> ~botToken,
                                  client |-> botToken]]
  /\ up' = IF botToken THEN up \cup {i} ELSE up
  /\ userTags' = IF botToken THEN [userTags EXCEPT ![i] = file] ELSE userTags
  /\ usersAwaitingTag' = IF botToken THEN [usersAwaitingTag EXCEPT ![i] = {}]
                         ELSE usersAwaitingTag
  /\ UNCHANGED <<mode, file, writable, waiting, last, afterSetTag, botToken, conv>>

\* a process of the polling bot starts (lines 6-53): without the credential
\* it logs the fault and goes on (process.exit is commented out), creates the
\* client with polling on, loads the tags and registers its handlers
StartPoll(i) ==
  /\ mode = "poll"
  /\ ~boot[i].started
  /\ boot' = [boot EXCEPT ![i] = [started |-> TRUE, logged |-> ~botToken,
                                  client |-> TRUE]]
  /\ up' = up \cup {i}
  /\ userTags' = [userTags EXCEPT ![i] = file]
  /\ usersAwaitingTag' = [usersAwaitingTag EXCEPT ![i] = {}]
  /\ UNCHANGED <<mode, file, writable, waiting, last, afterSetTag, botToken, conv>>

\* convertToAffiliateLink of the program at hand
convertToAffiliateLink(url, tag) ==
  IF mode = "poll" THEN convertToAffiliateLinkPoll(url, tag)
  ELSE convertToAffiliateLinkHook(url, tag)

\* convertToAffiliateLink(url, tagA)
RewriteFirst ==
  /\ conv.url # Null
  /\ conv.first = Null
  /\ conv' = [conv EXCEPT !.first = convertToAffiliateLink(conv.url, conv.tagA)]
  /\ UNCHANGED <<mode, up, userTags, usersAwaitingTag, file, writable, waiting, last,
                 afterSetTag, botToken, boot>>

\* convertToAffiliateLink(convertToAffiliateLink(url, tagA), tagB)
RewriteSecond ==
  /\ conv.first # Null
  /\ conv.second = Null
  /\ conv' = [conv EXCEPT !.second = convertToAffiliateLink(conv.first, conv.tagB)]
  /\ UNCHANGED <<mode, up, userTags, usersAwaitingTag, file, writable, waiting, last,
                 afterSetTag, botToken, boot>>

(***************************************************************************)
(* Specifications                                                          *)
(***************************************************************************)
\* after start-up: userTags = loadUserTags(), usersAwaitingTag = {}
InitCommon ==
  /\ up = {1}
  /\ file \in [Users -> TagValues]
  /\ writable \in BOOLEAN
  /\ userTags = [i \in Insts |-> file]
  /\ usersAwaitingTag = [i \in Insts |-> {}]
  /\ waiting = <<>>
  /\ last = NoEvent
  /\ afterSetTag = {}
  /\ botToken = TRUE
  /\ boot = [i \in Insts |-> IF i \in up
                               THEN [started |-> TRUE, logged |-> FALSE, client |-> TRUE]
                               ELSE NotStarted]
  /\ conv = NoConv

InitPoll == mode = "poll" /\ InitCommon

InitHook == mode = "hook" /\ InitCommon

\* the webhook app on a fresh host: no tag file yet, and it can be written
InitShared == InitHook /\ writable /\ \A u \in Users : file[u] = Null

Init == InitPoll \/ InitHook

NextPoll ==
  \/ \E i \in Insts, u \in Users, text \in Texts : PollMessage(i, u, text)
  \/ \E k \in 1..MaxPending, result \in ResolverResults : PollResolved(k, result)

NextHook ==
  \/ \E i \in Insts : HookNoMessage(i)
  \/ \E i \in Insts, u \in Users, text \in Texts : HookPost(i, u, text)
  \/ \E k \in 1..MaxPending, result \in ResolverResults : HookResolved(k, result)

NextShared ==
  \/ \E i \in Insts : Start(i)
  \/ \E i \in Insts : HookNoMessage(i)
  \/ \E i \in Insts, u \in Users, text \in SharedTexts : HookPost(i, u, text)

Next == NextPoll \/ NextHook

\* the polling bot
SpecPoll == InitPoll /\ [][NextPoll]_vars

\* the webhook app, one process
SpecHook == InitHook /\ [][NextHook]_vars

\* either program
Spec == Init /\ [][Next]_vars

\* the webhook app, with processes that share the tag file
SpecShared == InitShared /\ [][NextShared]_vars

\* before any process has started, with or without the credential
InitBoot ==
  /\ mode \in {"poll", "hook"}
  /\ botToken \in BOOLEAN
  /\ up = {}
  /\ boot = [i \in Insts |-> NotStarted]
  /\ file = [u \in Users |-> Null]
  /\ writable = TRUE
  /\ userTags = [i \in Insts |-> file]
  /\ usersAwaitingTag = [i \in Insts |-> {}]
  /\ waiting = <<>>
  /\ last = NoEvent
  /\ afterSetTag = {}
  /\ conv = NoConv

NextBoot ==
  \/ \E i \in Insts : StartPoll(i)
  \/ \E i \in Insts, u \in Users, text \in SharedTexts : PollMessage(i, u, text)
  \/ NextShared

\* either program from the start of its processes on
SpecBoot == InitBoot /\ [][NextBoot]_vars

\* the URLs and the tags convertToAffiliateLink is applied to in SpecRewrite
RewriteUrls ==
  { "https://amazon.com/dp/B00005N5PF",
    "http://www.amazon.in/x/gp/product/B00005N5PF?ref_=x&keep=1",
    "https://amazon.com/dp/B00005N5PF?tag=old-1&k=v&tag=other-2",
    "https://www.Amazon.de/dp/B00005N5PF?linkCode=ll1&tag=old-1#tag=frag",
    "https://amazon.com:99999/dp/B00005N5PF",
    "https://www.amazon.com/gp/help?tag=old-1",
    "https://example.com/x" }

RewriteTags == {"store-20", "shop-1"}

\* convertToAffiliateLink on its own, applied to a URL and then to its result
InitRewrite ==
  /\ mode \in {"poll", "hook"}
  /\ up = {1}
  /\ file = [u \in Users |-> Null]
  /\ writable = TRUE
  /\ userTags = [i \in Insts |-> file]
  /\ usersAwaitingTag = [i \in Insts |-> {}]
  /\ waiting = <<>>
  /\ last = NoEvent
  /\ afterSetTag = {}
  /\ botToken = TRUE
  /\ boot = [i \in Insts |-> IF i \in up
                               THEN [started |-> TRUE, logged |-> FALSE, client |-> TRUE]
                               ELSE NotStarted]
  /\ conv \in [url : RewriteUrls, tagA : RewriteTags, tagB : RewriteTags,
                first : {Null}, second : {Null}]

NextRewrite == RewriteFirst \/ RewriteSecond

SpecRewrite == InitRewrite /\ [][NextRewrite]_vars

\* The promise of axios.get settles (with a response or with an error), and
\* the event loop then resumes the handler that awaits it.
Resumes(t) ==
  \E k \in 1..MaxPending, result \in ResolverResults :
    /\ k \in 1..Len(waiting)
    /\ waiting[k].id = t
    /\ (PollResolved(k, result) \/ HookResolved(k, result))

FairSpec == Spec /\ \A t \in 1..MaxPending : WF_vars(Resumes(t))

(***************************************************************************)
(* Properties                                                              *)
(***************************************************************************)
\* the templates of the replies a handler sent
Kinds(replies) == {replies[k].kind : k \in 1..Len(replies)}

\* the replies that end the conversion pipeline: the affiliate link (DONE)
\* and the rejections (REJECTED)
TerminalKinds ==
  {"AffiliateLink", "NoUrl", "NotAmazon", "ResolveFailed", "CouldNotConvert"}

\* the number of terminal replies among replies
Terminals(replies) ==
  Cardinality({k \in 1..Len(replies) : replies[k].kind \in TerminalKinds})

\* the replies that tell the user to register a tag
NoTagKinds == {"ProvideTag", "Welcome", "SetTagPrompt"}

\* the texts whose first URL both programs take for a product link on an
\* Amazon domain
DirectLinkTexts ==
  {t \in Texts \ {Null} : extractUrl(t) # Null /\ amazonLongLinkRegex(extractUrl(t))}

\* last is the run of a message handler that has ended (returned or threw)
Ended == last.step # "none" /\ last.outcome # "resolving"

C2_NoTagRejected ==
  (/\ last.step = "message"
   /\ last.text \in DirectLinkTexts
   /\ userTags[last.inst][last.userId] = Null
   /\ (mode = "poll" => last.pipeline))
  => /\ Kinds(last.replies) \cap NoTagKinds # {}
     /\ "AffiliateLink" \notin Kinds(last.replies)

\* the polling bot answers such a user that the link could not be converted
C2_Witness ==
  /\ mode = "poll"
  /\ last.step = "message"
  /\ last.text = "https://amazon.com/dp/B00005N5PF"
  /\ userTags[last.inst][last.userId] = Null
  /\ Kinds(last.replies) = {"CouldNotConvert"}

\* C3: the webhook handler answers every POST with HTTP 200, exactly once,
\* whatever the outcome of the processing.
C3_AlwaysAcknowledged ==
  (mode = "hook" /\ Ended) => last.http = 1

\* a POST whose message has no text ends with no response at all
C3_Witness ==
  /\ mode = "hook"
  /\ last.step = "message"
  /\ last.text = Null
  /\ last.outcome = "threw"
  /\ last.http = 0

\* text is a well-formed tag, as the handlers read it (trimmed)
WellFormedTagText(text) == text # Null /\ isValidAmazonTag(trim(text))

\* C4: when a user sends the tag-registration command and then, as the next
\* message, a well-formed tag T, the tag stored for the user is T afterwards,
\* whatever tag was stored before.
C4_SetTagThenTagStores ==
  [][\A u \in afterSetTag :
       (/\ last'.step = "message"
        /\ last'.userId = u
        /\ u \notin afterSetTag'
        /\ WellFormedTagText(last'.text))
       => userTags'[last'.inst][u] = trim(last'.text)]_vars

\* the webhook app took the tag of a user who has one for a message without
\* a URL, and kept the earlier tag
C4_Witness ==
  /\ mode = "hook"
  /\ last.step = "message"
  /\ last.text = "store-20"
  /\ userTags[last.inst][last.userId] = "shop-1"
  /\ Kinds(last.replies) = {"NoUrl"}

\* C5: in the polling bot the pending flag of a user becomes set only when
\* the user sends the tag-registration command, and is cleared only by a
\* successful tag capture or by the session-reset command.
C5_FlagOnlyByCommands ==
  [][\A i \in Insts, u \in Users :
       /\ (u \notin usersAwaitingTag[i] /\ u \in usersAwaitingTag'[i])
            => (/\ last'.userId = u
                /\ last'.text # Null
                /\ startsWith(last'.text, "/settag"))
       /\ (u \in usersAwaitingTag[i] /\ u \notin usersAwaitingTag'[i])
            => (/\ last'.userId = u
                /\ last'.text # Null
                /\ \/ startsWith(last'.text, "/start")
                   \/ "TagSet" \in Kinds(last'.replies))]_vars

\* a link whose path holds /settag has set the flag of its sender
C5_Witness ==
  /\ mode = "poll"
  /\ last.step = "message"
  /\ last.text = "https://amazon.com/settag/dp/B00005N5PF"
  /\ last.userId \in usersAwaitingTag[last.inst]
  /\ "SetTagPrompt" \in Kinds(last.replies)

\* C6: while the pending flag of a user is set, a message of the user that is
\* not a well-formed tag (and not the session reset, which clears the flag)
\* gets the InvalidTagFormat reply, and leaves the stored tag unchanged and
\* the flag set.
C6_InvalidTagKeepsPending ==
  [][\A i \in Insts, u \in Users :
       (/\ mode = "poll"
        /\ u \in usersAwaitingTag[i]
        /\ last'.step = "message"
        /\ last'.inst = i
        /\ last'.userId = u
        /\ ~WellFormedTagText(last'.text)
        /\ ~(last'.text # Null /\ Contains(last'.text, "/start")))
       => /\ "InvalidTag" \in Kinds(last'.replies)
          /\ userTags'[i][u] = userTags[i][u]
          /\ u \in usersAwaitingTag'[i]]_vars

\* a message without a text from a user whose flag is set got no reply
C6_Witness ==
  /\ mode = "poll"
  /\ last.step = "message"
  /\ last.text = Null
  /\ last.userId \in usersAwaitingTag[last.inst]
  /\ last.outcome = "threw"
  /\ last.replies = <<>>

\* url is on no Amazon marketplace domain and on no shortener of the
\* allow-list
UnknownUrl(url) == ~anyAmazonDomainRegex(url) /\ ~amazonShortLinkRegex(url)

\* C7: the resolver is called at most once per message and only for a URL on
\* the shortener allow-list; a URL that is neither an Amazon link nor on the
\* allow-list is rejected as not-amazon with no resolver call, and never ends
\* in resolution-failed.
C7_ResolverOnlyForShortened ==
  /\ last.resolver <= 1
  /\ \A k \in 1..Len(waiting) : amazonShortLinkRegex(waiting[k].url)
  /\ (/\ last.pipeline
      /\ extractUrl(last.text) # Null
      /\ UnknownUrl(extractUrl(last.text)))
     => /\ last.resolver = 0
        /\ "NotAmazon" \in Kinds(last.replies)
        /\ "ResolveFailed" \notin Kinds(last.replies)

\* the webhook app called the resolver for a URL of neither kind and ended
\* in resolution-failed
C7_Witness ==
  /\ mode = "hook"
  /\ last.step = "resumed"
  /\ last.text = "https://example.com/x"
  /\ last.resolver = 1
  /\ Kinds(last.replies) = {"ResolveFailed"}

\* reply carries an affiliate URL with tag=tag and the product path of url
TaggedProductLink(reply, url, tag) ==
  LET Carries(asin) ==
        /\ Contains(reply.arg, "tag=" \o tag)
        /\ \/ Contains(reply.arg, "/dp/" \o asin)
           \/ Contains(reply.arg, "/gp/product/" \o asin)
  IN  reply.kind = "AffiliateLink" /\ Carries(amazonLongMatch(url).asin)

\* C8: a user with a stored tag T who sends a message with a direct Amazon
\* product link gets an affiliate URL whose query contains tag=T and whose
\* path still contains the product identifier, also when the link sent
\* already carries tag=T.
C8_DirectLinkConverted ==
  (/\ last.step = "message"
   /\ last.pipeline
   /\ last.text \in DirectLinkTexts
   /\ userTags[last.inst][last.userId] # Null)
  => \E k \in 1..Len(last.replies) :
       TaggedProductLink(last.replies[k], extractUrl(last.text),
                         userTags[last.inst][last.userId])

\* a link that already carries the tag of its sender is answered with the
\* conversion failure
C8_Witness ==
  /\ last.step = "message"
  /\ last.text = "https://amazon.com/dp/B00005N5PF?tag=store-20"
  /\ userTags[last.inst][last.userId] = "store-20"
  /\ Kinds(last.replies) = {"CouldNotConvert"}

\* C9: every tag the handlers have stored, in memory and in the tag file, is
\* a well-formed affiliate tag: it matches the validator pattern, so it is not
\* empty, holds no whitespace and ends in a digit.
C9_StoredTagsWellFormed ==
  \A u \in Users :
    \A t \in {file[u]} \cup {userTags[i][u] : i \in up} :
      t # Null =>
        /\ isValidAmazonTag(t)
        /\ Len(t) > 0
        /\ \A k \in 1..Len(t) : CharAt(t, k) \notin Whitespace
        /\ CharAt(t, Len(t)) \in Digits

\* a tag sent with blanks around it was stored trimmed
C9_Witness ==
  /\ last.step = "message"
  /\ last.text = " shop-1 "
  /\ last.saved
  /\ Kinds(last.replies) = {"TagSet"}
  /\ userTags[last.inst][last.userId] = "shop-1"

\* C10: processes that share the tag file write it atomically, last write
\* wins per user: a handler that sets the tag of one user never removes or
\* reverts the tag stored for another user, so that after two processes set
\* the tags of two users the file holds both.
C10_WritePerUser ==
  [][\A u \in Users :
       (last'.step = "message" /\ last'.saved /\ last'.userId # u)
       => file'[u] = file[u]]_vars

\* the file holds the tag of one user only, after two processes have each
\* stored the tag of a different user
C10_Witness ==
  /\ \A i \in Insts : i \in up
  /\ userTags[1][1] # Null
  /\ userTags[2][2] # Null
  /\ file[1] = Null
  /\ file[2] = userTags[2][2]
  /\ last.inst = 2 /\ last.saved

\* the program at hand passes url to convertToAffiliateLink: the polling bot
\* when amazonLongLinkRegex matches, the webhook app for any Amazon domain
Accepted(url) ==
  IF mode = "poll" THEN amazonLongLinkRegex(url) ELSE anyAmazonDomainRegex(url)

\* convertToAffiliateLink can take url apart: the webhook app needs new URL(url)
\* not to throw
Parseable(url) == mode = "hook" => parseUrl(url).ok

\* the positions of the tag parameters in the query string of url
TagParams(url) ==
  LET Upto(hash) == {i \in 2..(IF hash = 0 THEN Len(url) ELSE hash - 1) :
                       StartsAt(url, i, "tag=") /\ CharAt(url, i - 1) \in {"?", "&"}}
  IN  Upto(IndexFrom(url, 1, {"#"}))

\* the value of the parameter that starts at position i of url
ParamValue(url, i) ==
  LET Value(from, stop) == SubSeq(url, from, IF stop = 0 THEN Len(url) ELSE stop - 1)
      After(from) == Value(from, IndexFrom(url, from, {"&", "#"}))
  IN  After(IndexFrom(url, i, {"="}) + 1)

\* url has exactly one tag parameter, of value tag
OneTag(url, tag) ==
  /\ Cardinality(TagParams(url)) = 1
  /\ \A i \in TagParams(url) : ParamValue(url, i) = tag

\* C11 (amended): for every URL the program accepts for conversion and that
\* its rewriter can take apart, and for all tags tagA and tagB,
\* rewrite(rewrite(url, tagA), tagB) has exactly one tag parameter, of value
\* tagB: no tag parameter of the URL or of the first rewrite survives.
C11_RewriteTwiceOneTag ==
  (conv.second # Null /\ Accepted(conv.url) /\ Parseable(conv.url))
  => OneTag(conv.second, conv.tagB)

\* a URL with two tag parameters, rewritten with two different tags by the
\* webhook app
C11_Witness ==
  /\ mode = "hook"
  /\ conv.url = "https://amazon.com/dp/B00005N5PF?tag=old-1&k=v&tag=other-2"
  /\ conv.tagA = "store-20"
  /\ conv.tagB = "shop-1"
  /\ conv.first = "https://amazon.com/dp/B00005N5PF?k=v&tag=store-20"
  /\ conv.second = "https://amazon.com/dp/B00005N5PF?k=v&tag=shop-1"

\* C11 as stated: for every URL accepted for conversion,
\* rewrite(rewrite(url, tagA), tagB) has exactly one tag parameter, of value
\* tagB.
C11_Original ==
  (conv.second # Null /\ Accepted(conv.url)) => OneTag(conv.second, conv.tagB)

\* the URLs a and b have the same scheme, host and path (as new URL reads
\* them: the host in lower case, an empty path as "/")
SameFrame(a, b) ==
  LET Same(x, y) == /\ x.ok /\ y.ok
                    /\ x.scheme = y.scheme
                    /\ x.host = y.host
                    /\ x.port = y.port
                    /\ x.path = y.path
  IN  Same(parseUrl(a), parseUrl(b))

\* out is built from url the way the polling bot does: https, the
\* marketplace domain found in url as host, /dp/ and the product identifier
\* found in url as path, and tag as the whole query
MinimalLink(out, url, tag) ==
  LET Built(o) == /\ o.ok
                  /\ o.scheme = "https"
                  /\ Contains(Lower(url), o.host)
                  /\ anyAmazonDomainRegex(o.host)
                  /\ StartsAt(o.path, 1, "/dp/")
                  /\ Len(o.path) = Len("/dp/") + AsinLen
                  /\ Contains(url, From(o.path, Len("/dp/") + 1))
                  /\ o.query = "tag=" \o tag
                  /\ o.fragment = ""
  IN  Built(parseUrl(out))

\* C12 (amended): for every convertible URL and every tag, the affiliate URL
\* of the webhook app has the scheme, the host and the path of the input (and
\* its fragment); only the query string differs.  The affiliate URL of the
\* polling bot is https://<marketplace domain>/dp/<ASIN>?tag=<tag>: of the
\* input it keeps the marketplace domain and the product identifier only.
C12_RewriteFrame ==
  (conv.first # Null /\ Accepted(conv.url) /\ Parseable(conv.url))
  => IF mode = "hook"
       THEN /\ SameFrame(conv.first, conv.url)
            /\ parseUrl(conv.first).fragment = parseUrl(conv.url).fragment
       ELSE MinimalLink(conv.first, conv.url, conv.tagA)

\* the polling bot has rewritten a link with another scheme, host and path
C12_Witness ==
  /\ mode = "poll"
  /\ conv.url = "http://www.amazon.in/x/gp/product/B00005N5PF?ref_=x&keep=1"
  /\ conv.tagA = "store-20"
  /\ conv.first = "https://amazon.in/dp/B00005N5PF?tag=store-20"

\* C12 as stated: for every convertible URL and every tag, the affiliate URL
\* has the scheme, the host and the path of the input.
C12_Original ==
  (conv.first # Null /\ Accepted(conv.url) /\ Parseable(conv.url))
  => SameFrame(conv.first, conv.url)

C14_NoServingWithoutToken ==
  ~botToken =>
    /\ \A i \in Insts : boot[i].started =>
         (boot[i].logged /\ ~boot[i].client /\ i \notin up)
    /\ last.step = "none"

\* the polling bot, started without the credential, has logged the fault and
\* gone on to create its client and to poll
C14_Witness ==
  /\ mode = "poll"
  /\ ~botToken
  /\ boot[1].started /\ boot[1].logged /\ boot[1].client
  /\ 1 \in up

\* C15: no message makes a handler fail with an uncaught exception: every
\* message, one without a text included, is answered or ignored.
C15_NoUncaughtException == last.outcome # "threw"

\* the message handler of the polling bot threw on a message without a text
\* from a user whose pending flag is clear
C15_Witness ==
  /\ mode = "poll"
  /\ last.step = "message"
  /\ last.text = Null
  /\ last.userId \notin usersAwaitingTag[last.inst]
  /\ last.outcome = "threw"

\* C16: every affiliate-link reply carries a URL whose only tag parameter is
\* the tag stored for the user it is sent to at the moment of the reply: it
\* is never sent for a user without a stored tag and never carries the tag
\* of another user, whatever was handled while the resolver was awaited.
C16_ReplyCarriesOwnTag ==
  \A k \in 1..Len(last.replies) :
    last.replies[k].kind = "AffiliateLink" =>
      /\ userTags[last.inst][last.userId] # Null
      /\ OneTag(last.replies[k].arg, userTags[last.inst][last.userId])

\* a handler resumed after the resolver call has sent a link with the tag of
\* its user, which is not the tag of the other user
C16_Witness ==
  /\ last.step = "resumed"
  /\ Kinds(last.replies) = {"AffiliateLink"}
  /\ userTags[last.inst][last.userId] = "shop-1"
  /\ Contains(last.replies[1].arg, "tag=shop-1")
  /\ \E u \in Users : u # last.userId /\ userTags[last.inst][u] = "store-20"

\* the texts that are one of the two commands of the bot
RecognizedCommands == {"/start", "/settag"}

\* the reply that belongs to a recognized command
OwnReplyKinds(text) ==
  IF text = "/start" THEN {"Welcome", "WelcomeBack"} ELSE {"SetTagPrompt"}

\* C17: the "unrecognized command" reply is sent only for a message that
\* starts with "/" and is neither /start nor /settag, a message that is /start
\* or /settag gets its own reply and no other, and a message with a text
\* whose handler has ended has got at least one reply and exactly one that
\* is not the "detecting" notice.
C17_CommandReplies ==
  (Ended /\ last.step = "message" /\ last.text # Null) =>
    /\ "UnknownCommand" \in Kinds(last.replies) =>
          startsWith(last.text, "/") /\ last.text \notin RecognizedCommands
    /\ last.text \in RecognizedCommands =>
          /\ Len(last.replies) = 1
          /\ Kinds(last.replies) \subseteq OwnReplyKinds(last.text)
    /\ Cardinality({k \in 1..Len(last.replies) :
                      last.replies[k].kind # "Detecting"}) = 1

\* the polling bot has answered /settag, from a user whose pending flag was
\* clear, with the "unrecognized command" reply and then with the prompt for
\* the tag
C17_Witness ==
  /\ mode = "poll"
  /\ last.step = "message"
  /\ last.text = "/settag"
  /\ Len(last.replies) = 2
  /\ last.replies[1].kind = "UnknownCommand"
  /\ last.replies[2].kind = "SetTagPrompt"

\* the handler run l is a successful tag capture for user u in process i,
\* which left tag as the tag of u: it validated the trimmed text, stored it
\* and sent the confirmation
Captured(l, i, u, tag) ==
  /\ l.step = "message"
  /\ l.inst = i
  /\ l.userId = u
  /\ l.text # Null
  /\ "TagSet" \in Kinds(l.replies)
  /\ tag = trim(l.text)
  /\ isValidAmazonTag(tag)

\* C18: the tag store changes only through a successful tag capture for the
\* sending user.  In every step of a handler (a step that is not the start
\* of a process), the tag of a user changes, in the memory of a process or
\* in the file, only to the tag that a capture for that user has validated;
\* the pending flag of a user changes only in a handler run for a message of
\* that user; and a user who has a tag record, in memory or in the file,
\* still has one afterwards.
C18_TagStoreFrame ==
  [][boot' = boot =>
       \A u \in Users :
         /\ \A i \in Insts :
              /\ userTags'[i][u] # userTags[i][u] =>
                    Captured(last', i, u, userTags'[i][u])
              /\ userTags[i][u] # Null => userTags'[i][u] # Null
              /\ (u \in usersAwaitingTag'[i]) # (u \in usersAwaitingTag[i]) =>
                    /\ last'.step = "message"
                    /\ last'.inst = i
                    /\ last'.userId = u
         /\ file'[u] # file[u] =>
              \E i \in Insts : Captured(last', i, u, file'[u])
         /\ file[u] # Null => file'[u] # Null]_vars

\* a tag capture for one user has written the file, and the file holds no
\* record of another user whose tag a running process has captured and saved
C18_Witness ==
  /\ mode = "hook"
  /\ last.saved
  /\ Captured(last, last.inst, last.userId, file[last.userId])
  /\ \E j \in up, v \in Users :
       /\ j # last.inst
       /\ v # last.userId
       /\ userTags[j][v] # Null
       /\ userTags[last.inst][v] = Null
       /\ file[v] = Null

=============================================================================
